---- MODULE Spec2Model ----
(***************************************************************************)
(* A model of waltz/resources.py: resource identifiers (ResourceID), the   *)
(* resource type registry (RESOURCE_CATEGORIES), the Course orchestrator   *)
(* (push, to_disk, backup_resource) and the Outcome cache.                 *)
(*                                                                         *)
(* Text is modelled as a sequence of one-character strings, so that        *)
(* splitting, lowercasing and prefix tests are computed as the code        *)
(* computes them.  A file extension is one token of a text.                *)
(***************************************************************************)
EXTENDS Integers, Sequences, FiniteSets, TLC

VARIABLES
    remote,     \* the objects of the remote API: a set of [oid, coll, title, key]
    files,      \* the course's root directory: a function from paths to contents
    backups,    \* the _backups directory: a function from backup paths to contents
    clock,      \* the wall clock make_datetime_filename() reads
    rid,        \* the ResourceID the caller holds (NoResourceID when it holds none)
    CACHE,      \* Outcome.CACHE: course name -> (outcome name -> outcome)
    assignment, \* the Assignment the caller holds: attribute name -> value
    yaml_data,  \* the structured data to_disk made of it: key -> value
    pushes,     \* the remote objects the pushes of rid created (history)
    scans,      \* how often load_all ran, per course name (history)
    last,       \* what the most recent operation did (history)
    prev        \* what the operation before it did (history)

vars == <<remote, files, backups, clock, rid, CACHE, assignment, yaml_data,
          pushes, scans, last, prev>>

----------------------------------------------------------------------------
(* Bounds of the model *)

MaxKeys == 3       \* remote ids the remote API can hand out
MaxClock == 1      \* distinct timestamps of make_datetime_filename()
MaxBody == 2       \* distinct contents a resource can have
MaxScans == 2      \* bulk scans per course the model counts up to

----------------------------------------------------------------------------
(* Python values *)

\* Python's None, as a text no sequence of characters equals.
None == <<"<None>">>

\* The value True that _new_canvas_resource returns as canvas_data.
PyTrue == [kind |-> "True"]

\* A JSON object returned by the remote API, as canvas_data.
JsonData(obj) == [kind |-> "json", obj |-> obj]

Range(s) == {s[i] : i \in DOMAIN s}

\* An exception: its Python type, the message it was built from and the
\* titles / paths formatted into the message.
Raise(type, msg, names, paths) ==
    [type |-> type, msg |-> msg, names |-> names, paths |-> paths]

NoError == Raise("", "", <<>>, {})

----------------------------------------------------------------------------
(* str.lower, str.split *)

Upper == <<"A","B","C","D","E","F","G","H","I","J","K","L","M",
           "N","O","P","Q","R","S","T","U","V","W","X","Y","Z">>

Lowers == <<"a","b","c","d","e","f","g","h","i","j","k","l","m",
            "n","o","p","q","r","s","t","u","v","w","x","y","z">>

LowerChar(c) ==
    IF \E i \in DOMAIN Upper : Upper[i] = c
    THEN Lowers[CHOOSE i \in DOMAIN Upper : Upper[i] = c]
    ELSE c

lower(s) == [i \in DOMAIN s |-> LowerChar(s[i])]

\* The index of the first "/" of raw, 0 when there is none.
FirstSlash(raw) ==
    IF \E i \in DOMAIN raw : raw[i] = "/"
    THEN CHOOSE i \in DOMAIN raw : raw[i] = "/" /\ \A j \in 1..(i-1) : raw[j] # "/"
    ELSE 0

\* raw.split("/", 1): one part when raw has no "/", else two.
split1(raw) ==
    IF FirstSlash(raw) = 0
    THEN <<raw>>
    ELSE <<SubSeq(raw, 1, FirstSlash(raw) - 1),
           SubSeq(raw, FirstSlash(raw) + 1, Len(raw))>>

----------------------------------------------------------------------------
(* The Resource variants: class attributes *)

Resource ==
    [cls |-> "Resource", category_names |-> <<>>, canvas_name |-> "",
     canonical_category |-> "", canvas_title_field |-> "title",
     canvas_id_field |-> "id", extension |-> ""]

Page ==
    [cls |-> "Page",
     category_names |-> << <<"p","a","g","e">>, <<"p","a","g","e","s">> >>,
     canvas_name |-> "pages", canonical_category |-> "pages",
     canvas_title_field |-> "title", canvas_id_field |-> "url",
     extension |-> ".md"]

Outcome ==
    [cls |-> "Outcome",
     category_names |-> << <<"o","u","t","c","o","m","e">>,
                           <<"o","u","t","c","o","m","e","s">> >>,
     canvas_name |-> "outcomes", canonical_category |-> "outcomes",
     canvas_title_field |-> "title", canvas_id_field |-> "id",
     extension |-> ".yaml"]

Assignment ==
    [cls |-> "Assignment",
     category_names |-> << <<"a","s","s","i","g","n","m","e","n","t","s">>,
                           <<"a","s","s","i","g","n","m","e","n","t">>,
                           <<"a">> >>,
     canvas_name |-> "assignments", canonical_category |-> "assignments",
     canvas_title_field |-> "name", canvas_id_field |-> "id",
     extension |-> ".yaml"]

\* waltz/quizzes.py: a structured (.yaml) variant registered as "quiz"; the
\* title and id fields are the ones it inherits from Resource.
Quiz ==
    [cls |-> "Quiz",
     category_names |-> << <<"q","u","i","z">> >>,
     canvas_name |-> "quizzes", canonical_category |-> "quizzes",
     canvas_title_field |-> Resource.canvas_title_field,
     canvas_id_field |-> Resource.canvas_id_field,
     extension |-> ".yaml"]

----------------------------------------------------------------------------
(* The registry *)

ALL_RESOURCES == <<Quiz, Page, Assignment>>

\* for ResourceType in ALL_RESOURCES: for category in category_names:
\*     RESOURCE_CATEGORIES[category] = ResourceType
\* The registry after the first n variants; a later variant overwrites.
RECURSIVE RegisterFirst(_)
RegisterFirst(n) ==
    IF n = 0 THEN <<>>
    ELSE LET before == RegisterFirst(n - 1)
             R == ALL_RESOURCES[n]
             keys == DOMAIN before \cup Range(R.category_names)
         IN  [c \in keys |-> IF c \in Range(R.category_names) THEN R ELSE before[c]]

RESOURCE_CATEGORIES == RegisterFirst(Len(ALL_RESOURCES))

----------------------------------------------------------------------------
(* The remote API (waltz.canvas_tools) *)

Variants == {Quiz, Page, Assignment, Outcome}

\* The JSON object the remote API returns for one of its objects: the title
\* and the id under the field names of the object's collection.
Json(o) ==
    LET R == CHOOSE V \in Variants : V.canvas_name = o.coll
    IN  (R.canvas_title_field :> o.title) @@ (R.canvas_id_field :> o.key)

\* The remote's search_term semantics: the term occurs in the title.
Matches(term, title) ==
    \E i \in 1..(Len(title) - Len(term) + 1) :
        SubSeq(title, i, i + Len(term) - 1) = term

\* A set of remote objects as the list a paginated get(..., all=True) returns.
RECURSIVE Listing(_)
Listing(objs) ==
    IF objs = {} THEN <<>>
    ELSE LET o == CHOOSE x \in objs : \A y \in objs : x.oid <= y.oid
         IN  <<Json(o)>> \o Listing(objs \ {o})

\* get(canvas_name, params={"search_term": name}, all=True)
SearchRemote(coll, term) ==
    Listing({o \in remote : o.coll = coll /\ Matches(term, o.title)})

\* The ids the remote API can hand out.
Keys == {<<ToString(i)>> : i \in 1..MaxKeys}

----------------------------------------------------------------------------
(* Resource: class methods *)

\* A value or the exception raised instead of it.
Ok(v) == [err |-> NoError, val |-> v]
Fail(e) == [err |-> e, val |-> None]

KeyError(field) == Raise("KeyError", field, <<>>, {})

\* json_data[cls.canvas_title_field]
identify_title(cls, json_data) ==
    IF cls.canvas_title_field \in DOMAIN json_data
    THEN Ok(json_data[cls.canvas_title_field])
    ELSE Fail(KeyError(cls.canvas_title_field))

\* json_data[cls.canvas_id_field]
identify_id(cls, json_data) ==
    IF cls.canvas_id_field \in DOMAIN json_data
    THEN Ok(json_data[cls.canvas_id_field])
    ELSE Fail(KeyError(cls.canvas_id_field))

\* [cls.identify_title(r) for r in json_data]
get_names_from_json(cls, json_data) ==
    IF \E i \in DOMAIN json_data : identify_title(cls, json_data[i]).err # NoError
    THEN Fail(KeyError(cls.canvas_title_field))
    ELSE Ok([i \in DOMAIN json_data |-> identify_title(cls, json_data[i]).val])

\* os.path.join(cls.canonical_category, filename)
identify_filename(cls, filename) ==
    [folder |-> cls.canonical_category, sub |-> "", file |-> filename]

\* find_resource_on_canvas: the search, or the error of a response that
\* carries an 'errors' key.
find_resource_on_canvas(cls, resource_name, remoteOk) ==
    IF ~remoteOk
    THEN Fail(Raise("WaltzException", "Errors in Canvas data", <<>>, {}))
    ELSE Ok(SearchRemote(cls.canvas_name, resource_name))

\* get_resource_on_canvas: get('<canvas_name>/<resource_name>')
get_resource_on_canvas(cls, resource_name, remoteOk) ==
    LET hit == {o \in remote : o.coll = cls.canvas_name /\ o.key = resource_name}
    IN  IF ~remoteOk \/ hit = {}
        THEN Fail(Raise("WaltzNoResourceFound", "Errors in Canvas data", <<>>, {}))
        ELSE Ok(Json(CHOOSE o \in hit : TRUE))

\* glob(os.path.join(root, cls.canonical_category, '**', filename), recursive=True)
GlobDisk(cls, filename) ==
    {p \in DOMAIN files : p.folder = cls.canonical_category /\ p.file = filename}

\* find_resource_on_disk.  The last branch formats self.canonical_category
\* inside a classmethod whose first parameter is cls: evaluating the name
\* self raises NameError before the ValueError is built.
find_resource_on_disk(cls, filename) ==
    LET potentials == GlobDisk(cls, filename)
    IN  IF potentials = {}
        THEN Ok([is_new |-> TRUE, path |-> identify_filename(cls, filename)])
        ELSE IF Cardinality(potentials) = 1
        THEN Ok([is_new |-> FALSE, path |-> CHOOSE p \in potentials : TRUE])
        ELSE Fail(Raise("NameError", "name 'self' is not defined", <<>>, {}))

----------------------------------------------------------------------------
(* waltz.utilities *)

\* The characters make_safe_filename drops from a title.
UnsafeChars == {"/", ":", "?", "*"}

\* make_safe_filename(title)
make_safe_filename(title) == SelectSeq(title, LAMBDA c : c \notin UnsafeChars)

----------------------------------------------------------------------------
(* ResourceID *)

NoResourceID == [raw |-> None]

\* _parse_type without the membership test: an unknown category is looked up
\* with a default (RESOURCE_CATEGORIES.get(category, Page)).
_parse_type_defaulting(raw) ==
    LET parts == split1(raw)
        category == lower(parts[1])
        action == parts[2]
        resource_type == IF category \in DOMAIN RESOURCE_CATEGORIES
                         THEN RESOURCE_CATEGORIES[category] ELSE Page
    IN  IF Len(parts) # 2
        THEN Fail(Raise("ValueError", "not enough values to unpack", <<>>, {}))
        ELSE IF action = <<"*">>
        THEN Ok([category |-> category, command |-> "*", name |-> None,
                 resource_type |-> resource_type])
        ELSE IF action = <<>>
        THEN Fail(Raise("IndexError", "string index out of range", <<>>, {}))
        ELSE Ok([category |-> category, command |-> Head(action),
                 name |-> Tail(action), resource_type |-> resource_type])

\* ResourceID._parse_type(raw): (category, command, name, resource_type)
_parse_type(raw) ==
    LET parts == split1(raw)
        category == lower(parts[1])
        action == parts[2]
    IN  IF Len(parts) # 2
        THEN Fail(Raise("ValueError", "not enough values to unpack", <<>>, {}))
        ELSE IF category \notin DOMAIN RESOURCE_CATEGORIES
        THEN Fail(Raise("WaltzException", "Category not found", <<category>>, {}))
        ELSE IF action = <<"*">>
        THEN Ok([category |-> category, command |-> "*", name |-> None,
                 resource_type |-> RESOURCE_CATEGORIES[category]])
        ELSE IF action = <<>>
        THEN Fail(Raise("IndexError", "string index out of range", <<>>, {}))
        ELSE Ok([category |-> category, command |-> Head(action),
                 name |-> Tail(action),
                 resource_type |-> RESOURCE_CATEGORIES[category]])

\* ResourceID._new_canvas_resource.  The titles of the error message are
\* read by Resource.get_names_from_json, not by the variant's.
_new_canvas_resource(self, remoteOk) ==
    LET already(names) ==
            IF names.err # NoError THEN names
            ELSE Fail(Raise("WaltzException", "Resource already exists", names.val, {}))
        decide(potentials) ==
            IF potentials.err # NoError THEN potentials
            ELSE IF potentials.val = <<>> THEN Ok(PyTrue)
            ELSE already(get_names_from_json(Resource, potentials.val))
    IN  decide(find_resource_on_canvas(self.resource_type, self.name, remoteOk))

\* _find_canvas_resource without the test for several matches: the first
\* match is taken.
_find_canvas_resource_first(self, remoteOk) ==
    LET decide(potentials) ==
            IF potentials.err # NoError THEN potentials
            ELSE IF potentials.val = <<>>
            THEN Fail(Raise("WaltzNoResourceFound", "No resource found", <<>>, {}))
            ELSE Ok(JsonData(potentials.val[1]))
    IN  decide(find_resource_on_canvas(self.resource_type, self.name, remoteOk))

\* ResourceID._find_canvas_resource
_find_canvas_resource(self, remoteOk) ==
    LET ambiguous(names) ==
            IF names.err # NoError THEN names
            ELSE Fail(Raise("WaltzNoResourceFound", "Ambiguous resource ID",
                            names.val, {}))
        decide(potentials) ==
            IF potentials.err # NoError THEN potentials
            ELSE IF potentials.val = <<>>
            THEN Fail(Raise("WaltzNoResourceFound", "No resource found", <<>>, {}))
            ELSE IF Len(potentials.val) > 1
            THEN ambiguous(get_names_from_json(self.resource_type, potentials.val))
            ELSE Ok(JsonData(potentials.val[1]))
    IN  decide(find_resource_on_canvas(self.resource_type, self.name, remoteOk))

\* ResourceID._get_canvas_resource
_get_canvas_resource(self, remoteOk) ==
    LET wrap(data) == IF data.err # NoError THEN data ELSE Ok(JsonData(data.val))
    IN  wrap(get_resource_on_canvas(self.resource_type, self.name, remoteOk))

\* ResourceID._parse_canvas_data: (canvas_title, canvas_id) of canvas_data
_parse_canvas_data(self, canvas_data) ==
    LET both(title, id) ==
            IF title.err # NoError THEN title
            ELSE IF id.err # NoError THEN id
            ELSE Ok([canvas_title |-> title.val, canvas_id |-> id.val])
    IN  IF canvas_data = PyTrue
        THEN Ok([canvas_title |-> self.name, canvas_id |-> None])
        ELSE both(identify_title(self.resource_type, canvas_data.obj),
                  identify_id(self.resource_type, canvas_data.obj))

\* The number of remote requests _get_canvas_data makes for a command.
RemoteCallsOf(command) == IF command \in {"+", "?", ":"} THEN 1 ELSE 0

\* ResourceID._get_canvas_data: canvas_data, canvas_title and canvas_id
_get_canvas_data(self, remoteOk) ==
    LET set(data, parsed) ==
            IF parsed.err # NoError THEN parsed
            ELSE Ok([canvas_data |-> data.val,
                     canvas_title |-> parsed.val.canvas_title,
                     canvas_id |-> parsed.val.canvas_id])
        parse(data) ==
            IF data.err # NoError THEN data
            ELSE set(data, _parse_canvas_data(self, data.val))
    IN  IF self.command = "+" THEN parse(_new_canvas_resource(self, remoteOk))
        ELSE IF self.command = "?" THEN parse(_find_canvas_resource(self, remoteOk))
        ELSE IF self.command = ":" THEN parse(_get_canvas_resource(self, remoteOk))
        ELSE Fail(Raise("WaltzException", "Unknown command", <<>>, {}))

\* make_safe_filename(self.canvas_title)+extension
SearchedFilename(self, canvas_title) ==
    make_safe_filename(canvas_title) \o <<self.resource_type.extension>>

\* ResourceID._get_disk_path: filename, is_new and path
_get_disk_path(self, canvas_title) ==
    LET set(filename, found) ==
            IF found.err # NoError THEN found
            ELSE Ok([filename |-> filename, is_new |-> found.val.is_new,
                     path |-> found.val.path])
        find(filename) ==
            set(filename, find_resource_on_disk(self.resource_type, filename))
    IN  find(SearchedFilename(self, canvas_title))

\* ResourceID.__init__(course, raw): the identifier, or the exception; with
\* the number of remote requests and of disk scans made on the way.
ResourceID(raw, remoteOk) ==
    LET located(self, data, disk) ==
            IF disk.err # NoError
            THEN [err |-> disk.err, val |-> NoResourceID,
                  remote_calls |-> RemoteCallsOf(self.command), disk_scans |-> 1,
                  filename |-> SearchedFilename(self, data.canvas_title)]
            ELSE [err |-> NoError,
                  val |-> [raw |-> raw, category |-> self.category,
                           command |-> self.command, name |-> self.name,
                           resource_type |-> self.resource_type,
                           canvas_data |-> data.canvas_data,
                           canvas_title |-> data.canvas_title,
                           canvas_id |-> data.canvas_id,
                           filename |-> disk.val.filename,
                           is_new |-> disk.val.is_new,
                           path |-> disk.val.path],
                  remote_calls |-> RemoteCallsOf(self.command), disk_scans |-> 1,
                  filename |-> disk.val.filename]
        fetched(self, data) ==
            IF data.err # NoError
            THEN [err |-> data.err, val |-> NoResourceID,
                  remote_calls |-> RemoteCallsOf(self.command), disk_scans |-> 0,
                  filename |-> None]
            ELSE located(self, data.val, _get_disk_path(self, data.val.canvas_title))
        typed(parsed) ==
            IF parsed.err # NoError
            THEN [err |-> parsed.err, val |-> NoResourceID,
                  remote_calls |-> 0, disk_scans |-> 0, filename |-> None]
            ELSE fetched(parsed.val, _get_canvas_data(parsed.val, remoteOk))
    IN  typed(_parse_type(raw))

----------------------------------------------------------------------------
(* Contents: text (str) and structured data (CommentedMap) *)

Str(fmt, n) == [kind |-> "str", v |-> <<fmt, n>>]
Map(n) == [kind |-> "map", v |-> <<"map", n>>]

Bodies == 1..MaxBody

\* waltz.html_markdown_utilities.h2m: several HTML bodies give one Markdown.
h2m(body) == Str("md", body \div 2)

\* yaml.dump(resource_data, out): the text written for a mapping.
yaml_dump(resource_data) == Str("yaml", resource_data.v[2])

\* Page.to_disk
Page_to_disk(self) == h2m(self.body)

\* Assignment.to_disk: a CommentedMap
Assignment_to_disk(self) == Map(self.body)

\* Quiz.to_disk (waltz/quizzes.py): a structured mapping
Quiz_to_disk(self) == Map(self.body)

\* resource.to_disk(resource_id), by the class of the resource
resource_to_disk(self) ==
    IF self.cls = "Page" THEN Page_to_disk(self)
    ELSE IF self.cls = "Assignment" THEN Assignment_to_disk(self)
    ELSE Quiz_to_disk(self)

----------------------------------------------------------------------------
(* Course: push *)

FreeKeys(coll) == Keys \ {o.key : o \in {x \in remote : x.coll = coll}}

NextOid == 1 + Cardinality(remote)

\* post(canvas_name, data=json_data): the remote creates an object.
RemotePost(coll, json_data, key) ==
    LET new == [oid |-> NextOid, coll |-> coll, title |-> json_data.title, key |-> key]
    IN  [remote |-> remote \cup {new}, result |-> Json(new), oid |-> new.oid]

\* put('<canvas_name>/<id>', data=json_data): the remote updates the object
\* with that id; it may answer with a new id (a page's url follows its title).
RemotePut(coll, id, json_data, key) ==
    LET old == CHOOSE o \in remote : o.coll = coll /\ o.key = id
        new == [old EXCEPT !.title = json_data.title, !.key = key]
    IN  [remote |-> (remote \ {old}) \cup {new}, result |-> Json(new), oid |-> old.oid]

\* Resource.put_on_canvas(course_name, id, json_data)
put_on_canvas(cls, id, json_data, remoteOk, key) ==
    LET verb == IF id = None THEN "POST" ELSE "PUT"
        found == \E o \in remote : o.coll = cls.canvas_name /\ o.key = id
        sent == IF id = None
                THEN RemotePost(cls.canvas_name, json_data, key)
                ELSE RemotePut(cls.canvas_name, id, json_data, key)
    IN  IF ~remoteOk \/ (verb = "PUT" /\ ~found)
        THEN [err |-> Raise("WaltzException", "Errors in Canvas data", <<>>, {}),
              verb |-> verb, id |-> id, remote |-> remote, result |-> <<>>, oid |-> 0]
        ELSE [err |-> NoError, verb |-> verb, id |-> id, remote |-> sent.remote,
              result |-> sent.result, oid |-> sent.oid]

\* The id Course.push passes to put_on_canvas.
push_id(resource_id) ==
    IF resource_id.canvas_data = PyTrue
    THEN None
    ELSE identify_id(resource_id.resource_type, resource_id.canvas_data.obj).val

\* push without the call of _parse_canvas_data: title and id stay as they were.
push_resolve_stale(resource_id, result) ==
    [resource_id EXCEPT !.canvas_data = JsonData(result)]

\* Course.push(resource_id, json_data): the identifier afterwards
push_resolve(resource_id, result) ==
    LET parsed == _parse_canvas_data(resource_id, JsonData(result)).val
    IN  [resource_id EXCEPT !.canvas_data = JsonData(result),
                            !.canvas_title = parsed.canvas_title,
                            !.canvas_id = parsed.canvas_id]

----------------------------------------------------------------------------
(* Course: backup_resource, to_disk *)

\* os.path.join(backup_directory, make_datetime_filename() + extension + '.gz')
BackupPath(resource_id) ==
    [dir |-> identify_filename(resource_id.resource_type, resource_id.filename),
     stamp |-> clock, ext |-> resource_id.resource_type.extension]

\* backup_resource that also skips the write when the backup directory
\* already holds a backup with these contents.
backup_resource_deduplicating(resource_id, new_version) ==
    IF resource_id.path \notin DOMAIN files THEN FALSE
    ELSE IF files[resource_id.path] = new_version THEN FALSE
    ELSE IF \E b \in DOMAIN backups :
                /\ b.dir = BackupPath(resource_id).dir
                /\ backups[b] = files[resource_id.path]
    THEN FALSE
    ELSE TRUE

\* Course.backup_resource: whether it writes a backup
backup_resource(resource_id, new_version) ==
    IF resource_id.path \notin DOMAIN files THEN FALSE
    ELSE IF files[resource_id.path] = new_version THEN FALSE
    ELSE TRUE

\* The backups directory after Course.backup_resource
BackupsAfter(resource_id, new_version) ==
    IF backup_resource(resource_id, new_version)
    THEN [p \in DOMAIN backups \cup {BackupPath(resource_id)} |->
             IF p = BackupPath(resource_id) THEN files[resource_id.path]
             ELSE backups[p]]
    ELSE backups

\* What Course.to_disk writes at resource_id.path
Written(resource_id, resource_data) ==
    IF resource_id.resource_type.extension = ".yaml"
    THEN yaml_dump(resource_data)
    ELSE resource_data

----------------------------------------------------------------------------
(* Outcome cache *)

Courses == {"cs1", "cs2"}

\* The outcome bank files of the course: glob(root/outcomes/**/*.yaml)
BankFiles == {p \in DOMAIN files : p.folder = Outcome.canonical_category
                                   /\ p.file[Len(p.file)] = Outcome.extension}

\* yaml.load(bank_file): the mapping of outcome names a bank text holds;
\* the text 0 is a file that holds no mapping (yaml.load gives None).
yaml_load_bank(contents) ==
    IF contents.v[2] = 1 THEN ("o1" :> 1)
    ELSE ("o1" :> 2) @@ ("o2" :> 2)

HoldsMapping(contents) == contents.v[2] # 0

\* Outcome.load_all(course): the cache entry after scanning the banks in the
\* order glob lists them; a bank that holds no mapping ends the scan with an
\* exception, leaving what was loaded before it.
RECURSIVE load_all(_, _)
load_all(order, entry) ==
    IF order = <<>> THEN entry
    ELSE IF ~HoldsMapping(files[Head(order)]) THEN entry
    ELSE LET outcomes == yaml_load_bank(files[Head(order)])
             merged == [n \in DOMAIN entry \cup DOMAIN outcomes |->
                           IF n \in DOMAIN outcomes
                           THEN [body |-> outcomes[n], bank_source |-> Head(order).sub]
                           ELSE entry[n]]
         IN  load_all(Tail(order), merged)

\* The scan meets a bank that holds no mapping: outcomes.items() raises.
ScanRaises(order) == \E i \in DOMAIN order : ~HoldsMapping(files[order[i]])

\* The orders in which glob can list a set of paths.
Orders(S) == {o \in [1..Cardinality(S) -> S] : Range(o) = S}

\* The test written as "not Outcome.CACHE.get(course.course_name)": an empty
\* entry counts as missing.
NeedsScan_when_empty(course_name) ==
    course_name \notin DOMAIN CACHE \/ DOMAIN CACHE[course_name] = {}

\* if course.course_name not in Outcome.CACHE
NeedsScan(course_name) == course_name \notin DOMAIN CACHE

----------------------------------------------------------------------------
(* Inputs *)

slash == <<"/">>

CategoryTexts ==
    { <<"p","a","g","e">>, <<"P","a","g","e","s">>, <<"a">>, <<"A">>,
      <<"a","s","s","i","g","n","m","e","n","t">>,
      <<"q","u","i","z">>, <<"o","u","t","c","o","m","e">>,
      <<"o","u","t","c","o","m","e","s">>, <<"b","o","g","u","s">>, <<>> }

ActionTexts ==
    { <<"*">>, <<>>, <<"+","z">>, <<"+","h","w">>, <<"?","h","w">>,
      <<"?","h","w",":">>, <<"?","z">>, <<":","1">>, <<":","3">>,
      <<"x","h","w">> }

RawInputs ==
    {c \o slash \o a : c \in CategoryTexts, a \in ActionTexts}
        \cup { <<"p","a","g","e">> }

\* Payloads of push: the title the remote object is to have.
Payloads == { [title |-> <<"z">>], [title |-> <<"h","w">>] }

RemoteCandidates ==
    << [oid |-> 1, coll |-> "pages", title |-> <<"h","w">>, key |-> <<"1">>],
       [oid |-> 2, coll |-> "pages", title |-> <<"h","w",":","1">>, key |-> <<"2">>],
       [oid |-> 3, coll |-> "assignments", title |-> <<"h","w","1">>, key |-> <<"1">>] >>

InitRemotes == { {RemoteCandidates[i] : i \in 1..n} : n \in 0..Len(RemoteCandidates) }

DiskCandidates ==
    { [folder |-> "pages", sub |-> "", file |-> <<"h","w",".md">>],
      [folder |-> "pages", sub |-> "unit1", file |-> <<"h","w",".md">>],
      [folder |-> "pages", sub |-> "unit1", file |-> <<"h","w","1",".md">>],
      [folder |-> "assignments", sub |-> "unit1", file |-> <<"h","w","1",".yaml">>] }

InitDisks == { [p \in S |-> Str(IF p.folder = "pages" THEN "md" ELSE "yaml", 1)] :
               S \in SUBSET DiskCandidates }

BankCandidates ==
    { [folder |-> "outcomes", sub |-> "", file |-> <<"b",".yaml">>],
      [folder |-> "outcomes", sub |-> "unit1", file |-> <<"b",".yaml">>] }

----------------------------------------------------------------------------
(* Assignment.to_disk and Assignment.from_disk, field by field.  An object  *)
(* is a function from its attribute names to their values, a mapping a      *)
(* function from its keys to their values.                                  *)

\* hasattr(self, name)
hasattr(self, name) == name \in DOMAIN self

\* d.pop(key): the mapping that is left
Pop(d, key) == [k \in DOMAIN d \ {key} |-> d[k]]

\* d.update(e)
Update(d, e) == [k \in DOMAIN d \cup DOMAIN e |-> IF k \in DOMAIN e THEN e[k] ELSE d[k]]

\* d[key] = value
SetItem(d, key, value) == Update(d, key :> value)

\* Resource.__init__(**kwargs): every keyword becomes an attribute
Resource_init(kwargs) == kwargs

\* The moments a timestamp can name.
Times == {1, 2}

\* A timestamp in the remote API's date format.
CanvasDate(t) == [fmt |-> "canvas", t |-> t]

\* waltz.utilities.to_friendly_date and from_friendly_date: mutual inverses
to_friendly_date(d) == [fmt |-> "friendly", t |-> d.t]
from_friendly_date(d) == [fmt |-> "canvas", t |-> d.t]

\* waltz.html_markdown_utilities.m2h: the HTML body of a Markdown text
m2h(markdown) == 2 * markdown.v[2]

\* Assignment.to_disk, key by key
Assignment_to_disk_mapping(self) ==
    LET submission ==
            IF hasattr(self, "allowed_extensions")
            THEN [extensions |-> self["allowed_extensions"],
                  submission_types |-> self["submission_types"]]
            ELSE [submission_types |-> self["submission_types"]]
        timing == [due_at |-> to_friendly_date(self["due_at"]),
                   unlock_at |-> to_friendly_date(self["unlock_at"]),
                   lock_at |-> to_friendly_date(self["lock_at"])]
        secrecy == [anonymize_students |-> self["anonymize_students"],
                    anonymous_grading |-> self["anonymous_grading"]]
    IN  [name |-> self["name"],
         url |-> self["html_url"],
         settings |-> [published |-> self["published"],
                       points_possible |-> self["points_possible"],
                       grading_type |-> self["grading_type"],
                       submission |-> submission,
                       timing |-> timing,
                       secrecy |-> secrecy],
         description |-> h2m(self["description"])]

\* The settings mapping after its three grouped sections are merged into it.
UnnestSettings(settings) ==
    LET timed(s) == Update(Pop(s, "timing"), s["timing"])
        secret(s) == Update(Pop(s, "secrecy"), s["secrecy"])
        submitted(s) == Update(Pop(s, "submission"), s["submission"])
    IN  submitted(secret(timed(settings)))

\* Assignment.from_disk
Assignment_from_disk(course, data) ==
    LET described(d) == SetItem(d, "description", m2h(d["description"]))
        unnested(d) == SetItem(d, "settings", UnnestSettings(d["settings"]))
        flat(d) == Update(Pop(d, "settings"), d["settings"])
        due(d) == SetItem(d, "due_at", from_friendly_date(d["due_at"]))
        unlock(d) == SetItem(d, "unlock_at", from_friendly_date(d["unlock_at"]))
        lock(d) == SetItem(d, "lock_at", from_friendly_date(d["lock_at"]))
        url(d) == SetItem(Pop(d, "url"), "html_url", d["url"])
        built(d) == Resource_init(SetItem(d, "course", course))
    IN  built(url(lock(unlock(due(flat(unnested(described(data))))))))

\* Assignment.from_json
Assignment_from_json(course, json_data) ==
    Resource_init(SetItem(json_data, "course", course))

\* The assignments the remote API describes, with and without the optional
\* allowed_extensions.
JsonAssignments ==
    LET base == { [name |-> n, html_url |-> <<"u">>, published |-> p,
                   points_possible |-> pts, grading_type |-> <<"points">>,
                   submission_types |-> st, due_at |-> CanvasDate(due),
                   unlock_at |-> CanvasDate(1), lock_at |-> CanvasDate(2),
                   anonymize_students |-> FALSE, anonymous_grading |-> g,
                   description |-> b] :
                  n \in {<<"h","w">>, <<"z">>}, p \in BOOLEAN, pts \in {0, 10},
                  st \in {<<"none">>, <<"online_upload">>}, due \in Times,
                  g \in BOOLEAN, b \in Bodies }
    IN  base \cup {SetItem(j, "allowed_extensions", <<"py">>) : j \in base}

NoAssignment == [absent |-> TRUE]
NoYaml == [absent |-> TRUE]

----------------------------------------------------------------------------
(* The state machine *)

NoOp == [op |-> "none"]

Init ==
    /\ remote \in InitRemotes
    /\ files \in InitDisks
    /\ backups = <<>>
    /\ clock = 0
    /\ rid = NoResourceID
    /\ CACHE = <<>>
    /\ assignment = NoAssignment
    /\ yaml_data = NoYaml
    /\ pushes = [creates |-> 0, created |-> 0]
    /\ scans = [c \in Courses |-> 0]
    /\ last = NoOp
    /\ prev = NoOp

\* A command begins: ResourceID(course, raw)
Construct(raw, remoteOk) ==
    \E r \in {ResourceID(raw, remoteOk)} :
        /\ last = NoOp
        /\ rid' = r.val
        /\ pushes' = [creates |-> 0, created |-> 0]
        /\ last' = [op |-> "ResourceID", raw |-> raw, remoteOk |-> remoteOk,
                    err |-> r.err, remote_calls |-> r.remote_calls,
                    disk_scans |-> r.disk_scans, filename |-> r.filename]
        /\ prev' = NoOp
        /\ UNCHANGED <<remote, files, backups, clock, CACHE, scans,
                 assignment, yaml_data>>

\* course.push(resource_id, json_data)
Push(json_data, remoteOk, key) ==
    /\ rid # NoResourceID
    /\ \E id \in {push_id(rid)} :
       \E r \in {put_on_canvas(rid.resource_type, id, json_data, remoteOk, key)} :
           /\ key \in FreeKeys(rid.resource_type.canvas_name)
                       \cup (IF id = None THEN {} ELSE {id})
           /\ remote' = r.remote
           /\ rid' = IF r.err = NoError THEN push_resolve(rid, r.result) ELSE rid
           /\ pushes' = IF r.err = NoError /\ r.verb = "POST"
                        THEN [creates |-> pushes.creates + 1, created |-> r.oid]
                        ELSE pushes
           /\ last' = [op |-> "push", before |-> rid, verb |-> r.verb,
                       endpoint_id |-> r.id, err |-> r.err, result |-> r.result,
                       oid |-> r.oid]
           /\ prev' = NoOp
    /\ UNCHANGED <<files, backups, clock, CACHE, scans,
                 assignment, yaml_data>>

\* course.backup_resource(resource_id, new_version)
BackupResource(new_version) ==
    /\ rid # NoResourceID
    /\ backups' = BackupsAfter(rid, new_version)
    /\ last' = [op |-> "backup_resource", new_version |-> new_version,
                backed_up |-> backup_resource(rid, new_version),
                existed |-> rid.path \in DOMAIN files,
                backup_path |-> BackupPath(rid)]
    /\ prev' = IF last.op = "backup_resource" THEN last ELSE NoOp
    /\ UNCHANGED <<remote, files, clock, rid, CACHE, pushes, scans,
                 assignment, yaml_data>>

\* course.to_disk(resource_id, resource)
ToDisk(resource) ==
    /\ rid # NoResourceID
    /\ resource.cls = rid.resource_type.cls
    /\ \E resource_data \in {resource_to_disk(resource)} :
       \E written \in {Written(rid, resource_data)} :
           /\ backups' = BackupsAfter(rid, resource_data)
           /\ files' = [p \in DOMAIN files \cup {rid.path} |->
                           IF p = rid.path THEN written ELSE files[p]]
           /\ last' = [op |-> "to_disk", resource_data |-> resource_data,
                       written |-> written,
                       backed_up |-> backup_resource(rid, resource_data),
                       existed |-> rid.path \in DOMAIN files,
                       old |-> IF rid.path \in DOMAIN files THEN files[rid.path]
                               ELSE Str("", 0),
                       backup_path |-> BackupPath(rid)]
    /\ prev' = NoOp
    /\ UNCHANGED <<remote, clock, rid, CACHE, pushes, scans,
                 assignment, yaml_data>>

\* The command ends: the caller drops the identifier and the outcome of its
\* last operation.
Return ==
    /\ last # NoOp
    /\ rid' = NoResourceID
    /\ pushes' = [creates |-> 0, created |-> 0]
    /\ last' = NoOp
    /\ prev' = NoOp
    /\ UNCHANGED <<remote, files, backups, clock, CACHE, scans,
                 assignment, yaml_data>>

\* Time passes: make_datetime_filename() gives a later name.
Tick ==
    /\ clock < MaxClock
    /\ clock' = clock + 1
    /\ UNCHANGED <<remote, files, backups, rid, CACHE, pushes, scans, last, prev,
                 assignment, yaml_data>>

\* The author edits an outcome bank file of the course.
EditBank(path, n) ==
    /\ files' = [p \in DOMAIN files \cup {path} |->
                    IF p = path THEN Str("yaml", n) ELSE files[p]]
    /\ files' # files
    /\ last' = [op |-> "edit"]
    /\ prev' = NoOp
    /\ UNCHANGED <<remote, backups, clock, rid, CACHE, pushes, scans,
                 assignment, yaml_data>>

\* Outcome.load_outcome_by_name(course)(outcome_name): the template filter
LoadOutcomeByName(course_name, outcome_name, order) ==
    /\ scans[course_name] < MaxScans
    /\ order \in Orders(BankFiles)
    /\ CACHE' = IF NeedsScan(course_name)
                THEN [c \in DOMAIN CACHE \cup {course_name} |->
                         IF c = course_name THEN load_all(order, <<>>) ELSE CACHE[c]]
                ELSE CACHE
    /\ scans' = IF NeedsScan(course_name)
                THEN [scans EXCEPT ![course_name] = @ + 1]
                ELSE scans
    /\ last' = [op |-> "load_outcome_by_name", course_name |-> course_name,
                outcome_name |-> outcome_name,
                cached |-> course_name \in DOMAIN CACHE,
                scanned |-> NeedsScan(course_name),
                raised |-> NeedsScan(course_name) /\ ScanRaises(order),
                found |-> outcome_name \in DOMAIN CACHE'[course_name]]
    /\ prev' = NoOp
    /\ UNCHANGED <<remote, files, backups, clock, rid, pushes,
                 assignment, yaml_data>>

----------------------------------------------------------------------------

\* Assignment.from_json(course, json_data): the caller pulls an assignment
FromJson(course, json_data) ==
    /\ assignment = NoAssignment
    /\ assignment' = Assignment_from_json(course, json_data)
    /\ last' = [op |-> "Assignment.from_json"]
    /\ prev' = NoOp
    /\ UNCHANGED <<remote, files, backups, clock, rid, CACHE, yaml_data, pushes, scans>>

\* resource.to_disk(resource_id) of the assignment the caller holds
AssignmentToDisk ==
    /\ assignment # NoAssignment
    /\ yaml_data' = Assignment_to_disk_mapping(assignment)
    /\ last' = [op |-> "Assignment.to_disk"]
    /\ prev' = NoOp
    /\ UNCHANGED <<remote, files, backups, clock, rid, CACHE, assignment, pushes, scans>>

\* Assignment.from_disk(course, yaml_data, resource_id) of the data to_disk
\* made: the caller now holds the assignment read back.
AssignmentFromDisk(course) ==
    /\ yaml_data # NoYaml
    /\ last.op = "Assignment.to_disk"
    /\ assignment' = Assignment_from_disk(course, yaml_data)
    /\ last' = [op |-> "Assignment.from_disk", original |-> assignment]
    /\ prev' = NoOp
    /\ UNCHANGED <<remote, files, backups, clock, rid, CACHE, yaml_data, pushes, scans>>

----------------------------------------------------------------------------
(* Specifications *)

Resources == {[cls |-> c, body |-> b] : c \in {"Page", "Assignment", "Quiz"}, b \in Bodies}

\* The new versions backup_resource is called with: what a resource of the
\* identifier's type gives as to_disk data, and the text written for it.
NewVersions(resource_id) ==
    LET mine == {r \in Resources : r.cls = resource_id.resource_type.cls}
    IN  IF resource_id = NoResourceID THEN {}
        ELSE {resource_to_disk(r) : r \in mine}
                \cup {Written(resource_id, resource_to_disk(r)) : r \in mine}

\* Resolving identifiers.
NextResolve ==
    \/ \E raw \in RawInputs, remoteOk \in BOOLEAN : Construct(raw, remoteOk)
    \/ Return

SpecResolve == Init /\ [][NextResolve]_vars

\* Pushing: an identifier of any command, pushed any number of times.
PushRaws ==
    { <<"p","a","g","e","/","+","z">>, <<"a","/","+","z">>,
      <<"q","u","i","z","/","+","z">>, <<"p","a","g","e","/","?","h","w">>,
      <<"a","/","?","h","w">>, <<"p","a","g","e","/",":","1">> }

NextPush ==
    \/ \E raw \in PushRaws : Construct(raw, TRUE)
    \/ \E json_data \in Payloads, remoteOk \in BOOLEAN, key \in Keys :
          Push(json_data, remoteOk, key)

SpecPush == Init /\ [][NextPush]_vars

\* Writing to disk: an identifier of a page or of an assignment, written and
\* backed up any number of times while time passes.
DiskRaws ==
    { <<"p","a","g","e","/",":","1">>, <<"p","a","g","e","/","+","z">>,
      <<"a","/",":","1">> }

InitDisk ==
    /\ Init
    /\ remote = Range(RemoteCandidates)
    /\ \A p \in DOMAIN files : p.sub = "" \/ p.folder = "assignments"

NextDisk ==
    \/ \E raw \in DiskRaws : Construct(raw, TRUE)
    \/ \E resource \in Resources : ToDisk(resource)
    \/ \E new_version \in NewVersions(rid) : BackupResource(new_version)
    \/ Tick

SpecDisk == InitDisk /\ [][NextDisk]_vars

\* The outcome cache: the author edits bank files while templates look up
\* outcomes of two courses.
BankTexts == {0, 1, 2}

OutcomeNames == {"o1", "o3"}

InitCache == Init /\ remote = {} /\ files = <<>>

NextCache ==
    \/ \E path \in BankCandidates, n \in BankTexts : EditBank(path, n)
    \/ \E course_name \in Courses, outcome_name \in OutcomeNames,
          order \in Orders(BankFiles) :
          LoadOutcomeByName(course_name, outcome_name, order)

SpecCache == InitCache /\ [][NextCache]_vars

\* An assignment pulled from the remote API, written to disk form and read
\* back, any number of times.
InitRoundTrip == Init /\ remote = {} /\ files = <<>>

NextRoundTrip ==
    \/ \E course \in Courses, json_data \in JsonAssignments : FromJson(course, json_data)
    \/ AssignmentToDisk
    \/ \E course \in Courses : AssignmentFromDisk(course)

SpecRoundTrip == InitRoundTrip /\ [][NextRoundTrip]_vars

----------------------------------------------------------------------------
(* The errors of the specification's taxonomy, as the exceptions raised *)

UnknownCategory(e) == e.type = "WaltzException" /\ e.msg = "Category not found"
UnknownCommand(e) == e.type = "WaltzException" /\ e.msg = "Unknown command"
AlreadyExists(e) == e.type = "WaltzException" /\ e.msg = "Resource already exists"
NotFound(e) == e.type = "WaltzNoResourceFound" /\ e.msg = "No resource found"
Ambiguous(e) == e.type = "WaltzNoResourceFound" /\ e.msg = "Ambiguous resource ID"
DuplicateOnDisk(e) == e.type = "ValueError" /\ e.msg = "Category has two files with same name"

----------------------------------------------------------------------------
(* What the last construction was asked *)

\* The last operation constructed an identifier from a raw text with a "/".
Constructed == last.op = "ResourceID" /\ FirstSlash(last.raw) # 0

AskedCategory == lower(SubSeq(last.raw, 1, FirstSlash(last.raw) - 1))
AskedAction == SubSeq(last.raw, FirstSlash(last.raw) + 1, Len(last.raw))
AskedName == Tail(AskedAction)
AskedType == RESOURCE_CATEGORIES[AskedCategory]

\* The last operation resolved <registered category>/<c><name>, and the
\* remote answered its request.
Asked(c) ==
    /\ Constructed
    /\ AskedCategory \in DOMAIN RESOURCE_CATEGORIES
    /\ AskedAction # <<>>
    /\ Head(AskedAction) = c
    /\ AskedAction # <<"*">>

\* The remote objects a search of the asked name matches.
Hits == {o \in remote : o.coll = AskedType.canvas_name /\ Matches(AskedName, o.title)}

TitlesOf(objs) == {o.title : o \in objs}

----------------------------------------------------------------------------
(* Claims *)

\* C2: resolving category/?name succeeds only when the remote search returns
\* exactly one match, and then the identifier holds that match's data, title
\* and id; zero matches fail with NotFound, several with Ambiguous listing
\* all matching titles, and in both cases no identifier is produced.
C2_SearchNeedsExactlyOneMatch ==
    Asked("?") =>
        /\ last.err = NoError =>
              /\ Cardinality(Hits) = 1
              /\ \A o \in Hits :
                    /\ rid.canvas_data = JsonData(Json(o))
                    /\ rid.canvas_title = o.title
                    /\ rid.canvas_id = o.key
        /\ (last.remoteOk /\ Hits = {}) =>
              NotFound(last.err) /\ rid = NoResourceID
        /\ (last.remoteOk /\ Cardinality(Hits) > 1) =>
              /\ Ambiguous(last.err)
              /\ Range(last.err.names) = TitlesOf(Hits)
              /\ Len(last.err.names) = Cardinality(Hits)
              /\ rid = NoResourceID

C2_Witness ==
    /\ Asked("?")
    /\ last.err = NoError
    /\ Cardinality(Hits) = 1
    /\ rid.canvas_id \in {o.key : o \in Hits}

\* C3 (as claimed): resolving category/+name fails with AlreadyExists
\* whenever the remote search returns one or more matches; with no match the
\* identifier is new: its data is True, its id absent, its title the name.
C3_CreateFailsWithAlreadyExists ==
    (Asked("+") /\ last.remoteOk) =>
        /\ Hits # {} => AlreadyExists(last.err) /\ rid = NoResourceID
        /\ (Hits = {} /\ last.err = NoError) =>
              /\ rid.canvas_data = PyTrue
              /\ rid.canvas_id = None
              /\ rid.canvas_title = AskedName

\* C4: an identifier whose lowercased category is not registered fails with
\* UnknownCategory, before any remote lookup and before any disk scan.
C4_UnknownCategoryBeforeLookups ==
    (Constructed /\ AskedCategory \notin DOMAIN RESOURCE_CATEGORIES) =>
        /\ UnknownCategory(last.err)
        /\ last.remote_calls = 0
        /\ last.disk_scans = 0
        /\ rid = NoResourceID

C4_Witness ==
    /\ Constructed
    /\ AskedCategory = <<"b","o","g","u","s">>
    /\ AskedAction = <<"?","h","w">>
    /\ \E o \in remote : Matches(AskedName, o.title)
    /\ UnknownCategory(last.err)

\* C5 (as claimed): for a registered category, <category>/* is accepted as a
\* wildcard identifier and is not rejected as an unknown command.
C5_WildcardAccepted ==
    (/\ Constructed
     /\ AskedCategory \in DOMAIN RESOURCE_CATEGORIES
     /\ AskedAction = <<"*">>) =>
        /\ ~UnknownCommand(last.err)
        /\ last.err = NoError
        /\ rid # NoResourceID

\* The files the recursive scan of the variant's folder finds.
DiskMatches ==
    {p \in DOMAIN files : p.folder = AskedType.canonical_category
                          /\ p.file = last.filename}

\* C6 (as claimed): disk resolution with no matching file makes the
\* identifier new-on-disk at <folder>/<filename>; with one match the path is
\* that file; with two or more it fails with DuplicateOnDisk, reporting the
\* conflicting paths, and no path is chosen.
C6_DiskResolution ==
    (Constructed /\ last.disk_scans = 1) =>
        /\ DiskMatches = {} =>
              /\ last.err = NoError
              /\ rid.is_new
              /\ rid.path = [folder |-> AskedType.canonical_category, sub |-> "",
                             file |-> last.filename]
        /\ Cardinality(DiskMatches) = 1 =>
              /\ last.err = NoError
              /\ ~rid.is_new
              /\ rid.path \in DiskMatches
        /\ Cardinality(DiskMatches) >= 2 =>
              /\ DuplicateOnDisk(last.err)
              /\ last.err.paths = DiskMatches
              /\ rid = NoResourceID

\* The names the variants declare as their categories.
DeclaredCategories == UNION {Range(V.category_names) : V \in Variants}

\* C10 (as claimed): every category (page, assignment, quiz, outcome) and
\* every accepted alias of a variant is registered and maps to its variant,
\* so an identifier with that category passes the category lookup.
C10_EveryCategoryRegistered ==
    (Constructed /\ AskedCategory \in DeclaredCategories) =>
        /\ AskedCategory \in DOMAIN RESOURCE_CATEGORIES
        /\ AskedCategory \in Range(RESOURCE_CATEGORIES[AskedCategory].category_names)
        /\ ~UnknownCategory(last.err)

\* C1: push creates (POST) exactly when the identifier has no remote id, and
\* otherwise updates (PUT) the object at the identifier's current remote id;
\* after a successful push the identifier's data, title and id are those of
\* the response; so of the pushes on one create-identifier only the first
\* creates and every later one updates the object the first created.
C1_PushCreatesOnceThenUpdates ==
    last.op = "push" =>
        /\ (last.verb = "POST") <=> (last.before.canvas_id = None)
        /\ (last.verb = "PUT") => last.endpoint_id = last.before.canvas_id
        /\ last.verb \in {"POST", "PUT"}
        /\ last.err = NoError =>
              /\ rid.canvas_data = JsonData(last.result)
              /\ rid.canvas_title = last.result[rid.resource_type.canvas_title_field]
              /\ rid.canvas_id = last.result[rid.resource_type.canvas_id_field]
              /\ \E o \in remote : o.oid = last.oid /\ Json(o) = last.result
        /\ last.err # NoError => rid = last.before
        /\ pushes.creates <= 1
        /\ pushes.creates = 1 <=> (rid.command = "+" /\ rid.canvas_id # None)
        /\ (last.verb = "PUT" /\ last.err = NoError /\ rid.command = "+") =>
              last.oid = pushes.created

C1_Witness ==
    /\ last.op = "push"
    /\ rid.command = "+"
    /\ last.verb = "PUT"
    /\ last.err = NoError
    /\ pushes.creates = 1
    /\ last.oid = pushes.created
    /\ rid.canvas_id # last.before.canvas_id
    /\ rid.canvas_title # rid.name

\* The last two operations were backup_resource on the identifier with the
\* same new content, nothing but the passing of time in between.
BackedUpTwice ==
    /\ last.op = "backup_resource"
    /\ prev.op = "backup_resource"
    /\ last.new_version = prev.new_version

\* C7 (as claimed): backup_resource called twice in succession with
\* identical new content performs exactly one backup write: the second call
\* writes no backup file and returns false.
C7_SecondBackupIsNoOp ==
    BackedUpTwice => ~last.backed_up

\* C7 (amended): backup_resource never writes the new content, so the second
\* of two successive calls with identical new content does what the first
\* did: both write a backup of the file and return true when the file exists
\* and differs from the new content, and both return false otherwise.
C7_SecondBackupRepeatsFirst ==
    BackedUpTwice =>
        /\ last.backed_up = prev.backed_up
        /\ last.backed_up <=>
              (rid.path \in DOMAIN files /\ files[rid.path] # last.new_version)
        /\ last.backed_up =>
              /\ last.backup_path \in DOMAIN backups
              /\ backups[last.backup_path] = files[rid.path]
              /\ prev.backup_path \in DOMAIN backups
              /\ backups[prev.backup_path] = files[rid.path]

C7_Witness ==
    /\ BackedUpTwice
    /\ last.backed_up
    /\ prev.backed_up
    /\ last.backup_path # prev.backup_path
    /\ last.new_version.kind = "str"
    /\ Cardinality(DOMAIN backups) = 2

\* C8 (as claimed): a to_disk call creates a backup file exactly when a file
\* exists at the resolved path and its contents differ from the new content
\* being written, for the .yaml variants and the .md variant alike, and the
\* backup holds the previous contents.
C8_BackupExactlyOnChange ==
    last.op = "to_disk" =>
        /\ files[rid.path] = last.written
        /\ last.backed_up <=> (last.existed /\ last.old # last.written)
        /\ last.backed_up =>
              /\ last.backup_path \in DOMAIN backups
              /\ backups[last.backup_path] = last.old

\* C9: over any sequence of lookups through load_outcome_by_name the bulk
\* scan (load_all) of a course runs exactly once per course name, on the
\* first lookup for that course, and an entry of the cache, once it exists,
\* is never repopulated or invalidated.
C9_ScanOncePerCourse ==
    /\ [](\A c \in Courses :
             /\ scans[c] <= 1
             /\ c \in DOMAIN CACHE <=> scans[c] = 1)
    /\ [](last.op = "load_outcome_by_name" =>
             /\ last.course_name \in DOMAIN CACHE
             /\ last.scanned <=> ~last.cached)
    /\ [][\A c \in DOMAIN CACHE : c \in DOMAIN CACHE' /\ CACHE'[c] = CACHE[c]]_vars

\* A second lookup of a course whose banks changed since the scan.
C9_Witness ==
    /\ last.op = "load_outcome_by_name"
    /\ last.cached
    /\ ~last.scanned
    /\ scans[last.course_name] = 1
    /\ DOMAIN CACHE[last.course_name] = {}
    /\ \E b \in BankFiles : HoldsMapping(files[b])
    /\ Cardinality(DOMAIN CACHE) = 2

----------------------------------------------------------------------------
(* Assignment round trip *)

\* The attributes of an Assignment that to_disk and from_disk jointly cover.
CoveredFields ==
    {"name", "html_url", "published", "points_possible", "grading_type",
     "submission_types", "allowed_extensions", "due_at", "unlock_at", "lock_at",
     "anonymize_students", "anonymous_grading"}

\* C11 (as claimed): from_disk(to_disk(resource)) of an Assignment has every
\* covered field of the original resource (name, url, published,
\* points_possible, grading_type, submission types and allowed extensions,
\* due/unlock/lock timestamps, secrecy flags) under the same attribute and
\* with the same value.
C11_AssignmentRoundTrip ==
    last.op = "Assignment.from_disk" =>
        \A a \in CoveredFields \cap DOMAIN last.original :
            /\ a \in DOMAIN assignment
            /\ assignment[a] = last.original[a]

====
